---- MODULE Spec2Model ----
(***************************************************************************)
(* Model of package wlock (src/wlock.go): the LockerManager lease/lock     *)
(* registry, its operations, the rpc handlers of Enable that wrap them in  *)
(* Sync, the serialising loop over the channel C and the GC timer.         *)
(*                                                                         *)
(* Strings are sequences of one-character strings, "" is <<>>.  Time is a  *)
(* natural number of clock units; every time.Now() of one command reads    *)
(* the same instant.  The three intervals New() configures (60 s, 300 s    *)
(* and 600 s) are scaled down to 1, 2 and 3 units, which keeps their order *)
(* AutoUnlockInterval < AutoFreeInterval < GCInterval.                     *)
(***************************************************************************)
EXTENDS Integers, Sequences, FiniteSets, TLC

\* ----------------------------------------------------------------- bounds
MaxIds == 2        \* calls of lm.New() explored (NextId values handed out)
MaxSecrets == 3    \* values of NextSecret() explored (secrets and tokens)
MaxTime == 3       \* the clock is explored up to this instant
NumLockers == 2    \* goroutines racing for one lock through lm.Sync
NumClients == 2    \* client goroutines of TestLocker (1000 in the test)
MaxPolls == 2      \* closures the status goroutine of TestLocker sends

\* -------------------------------------------------------------- constants
AutoFreeInterval == 2      \* lm.AutoFreeInterval (300 s), scaled
AutoUnlockInterval == 1    \* lm.AutoUnlockInterval (60 s), scaled
GCInterval == 3            \* lm.GCInterval (600 s), scaled
DEFAULT_SIZE == 1          \* capacity of the channel C

\* ---------------------------------------------------------------- strings
EmptyStr == <<>>
Digit == <<"0", "1", "2", "3", "4", "5", "6", "7", "8", "9">>

\* fmt.Sprint of a non-negative int: its decimal digits
RECURSIVE Sprint(_)
Sprint(n) ==
    IF n < 10 THEN <<Digit[n + 1]>>
              ELSE Sprint(n \div 10) \o <<Digit[(n % 10) + 1]>>

\* Mutant of DefaultNextSecret: a generator that returns one value again
\* and again
DefaultNextSecret_fixed(k) == <<"u">> \o Sprint(1)

\* The k-th value uuid.New().String() returns in a run: random 122-bit
\* values, modelled as never repeating and never empty.
DefaultNextSecret(k) == <<"u">> \o Sprint(k)

\* The literal strings of the rpc layer
not_found == <<"not_found">>
locked == <<"locked">>
unlocked == <<"unlocked">>
args_err == <<"args">>

\* wret.OK(values...) and wret.Error(values...)
OK(vals) == [ok |-> TRUE, vals |-> vals]
Error(vals) == [ok |-> FALSE, vals |-> vals]

\* json.Marshal(Status{Total, Locked}): {"total":T,"locked":K}
Marshal(s) ==
    <<"{", "total", ":">> \o Sprint(s.Total) \o <<",", "locked", ":">>
        \o Sprint(s.Locked) \o <<"}">>

\* ------------------------------------------------------------------ state
VARIABLES
    Lockers,      \* lm.Lockers: map[id]*Locker, a function on the live ids
    nextId,       \* the counter captured by DefaultNextId's closure
    nextSecret,   \* how many values NextSecret() has returned, plus one
    now,          \* time.Now(), in minutes since New()
    gcWake,       \* when the GC goroutine's time.Sleep(lm.GCInterval) ends
    last,         \* the command executed last: [op, args, resp]
    freeOK,       \* history: <<id, secret>> -> successful wlock/free calls
    issued,       \* history: token -> [id, state, releases, n, at] for every
                  \* Lock success: how it ended, and as which NextSecret() value
                  \* and when it was returned
    C,            \* lm.C: the closures sent and not yet received
    running,      \* the closure fn the loop has received and not yet run
    pc,           \* where each calling goroutine is in lm.Sync
    closed,       \* the callers whose done channel has been closed
    result,       \* what each caller's closure assigned, resp, with history:
                  \* when it ran, as which command, and whether the id it
                  \* addressed was in the map
    sent,         \* history: how many closures have been sent on C
    ran,          \* history: how many closures the loop has run
    client,       \* TestLocker: each client goroutine's id, secret, token,
                  \* its place in call(), and what its calls returned and when
    polls         \* TestLocker: closures the status goroutine has sent

store == <<Lockers, nextId, nextSecret, now, gcWake, last, freeOK, issued>>
sync == <<C, running, pc, closed, result, sent, ran, client, polls>>
vars == <<store, sync>>

\* type Locker struct
Locker(id, secret, t) ==
    [Id |-> id, Secret |-> secret, Token |-> EmptyStr, Locked |-> FALSE,
     LastHold |-> t, LastTouch |-> t]

Remove(L, id) == [x \in DOMAIN L \ {id} |-> L[x]]

\* ------------------------------------------------------------- operations
\* Each operation is a function of the map L (and the clock t) to the map
\* after it and its return value.

\* Mutant of New: the new record replaces the map
New_resetMap(L, id, secret, t) ==
    [L |-> [x \in {id} |-> Locker(id, secret, t)],
     id |-> id, secret |-> secret]

\* func (lm *LockerManager) New() (id, secret)
New(L, id, secret, t) ==
    [L |-> [x \in DOMAIN L \cup {id} |->
               IF x = id THEN Locker(id, secret, t) ELSE L[x]],
     id |-> id, secret |-> secret]

\* Mutant of Free: reports success and leaves the record in the map
Free_noDelete(L, id, secret) ==
    IF id \notin DOMAIN L THEN [L |-> L, ok |-> FALSE]
    ELSE IF L[id].Secret # secret THEN [L |-> L, ok |-> FALSE]
    ELSE [L |-> L, ok |-> TRUE]

\* func (lm *LockerManager) Free(id, secret) bool
Free(L, id, secret) ==
    IF id \notin DOMAIN L THEN [L |-> L, ok |-> FALSE]
    ELSE IF L[id].Secret # secret THEN [L |-> L, ok |-> FALSE]
    ELSE [L |-> Remove(L, id), ok |-> TRUE]

\* Mutant of Hold: a missing record counts as renewed
Hold_nilOK(L, id, secret, t) ==
    IF id \notin DOMAIN L THEN [L |-> L, ok |-> TRUE]
    ELSE IF L[id].Secret # secret THEN [L |-> L, ok |-> FALSE]
    ELSE [L |-> [L EXCEPT ![id].LastHold = t], ok |-> TRUE]

\* func (lm *LockerManager) Hold(id, secret) bool
Hold(L, id, secret, t) ==
    IF id \notin DOMAIN L THEN [L |-> L, ok |-> FALSE]
    ELSE IF L[id].Secret # secret THEN [L |-> L, ok |-> FALSE]
    ELSE [L |-> [L EXCEPT ![id].LastHold = t], ok |-> TRUE]

\* Mutant of Unlock: the token is not cleared (as in the earlier revision,
\* src/unnamed/part_000)
Unlock_keepToken(L, id, token) ==
    IF id \notin DOMAIN L THEN [L |-> L, ok |-> FALSE]
    ELSE IF L[id].Locked = FALSE THEN [L |-> L, ok |-> FALSE]
    ELSE IF L[id].Token # token THEN [L |-> L, ok |-> FALSE]
    ELSE [L |-> [L EXCEPT ![id].Locked = FALSE], ok |-> TRUE]

\* Mutant of Unlock: reports success and clears nothing
Unlock_noClear(L, id, token) ==
    IF id \notin DOMAIN L THEN [L |-> L, ok |-> FALSE]
    ELSE IF L[id].Locked = FALSE THEN [L |-> L, ok |-> FALSE]
    ELSE IF L[id].Token # token THEN [L |-> L, ok |-> FALSE]
    ELSE [L |-> L, ok |-> TRUE]

\* func (lm *LockerManager) Unlock(id, token) bool
Unlock(L, id, token) ==
    IF id \notin DOMAIN L THEN [L |-> L, ok |-> FALSE]
    ELSE IF L[id].Locked = FALSE THEN [L |-> L, ok |-> FALSE]
    ELSE IF L[id].Token # token THEN [L |-> L, ok |-> FALSE]
    ELSE [L |-> [L EXCEPT ![id].Locked = FALSE, ![id].Token = EmptyStr],
          ok |-> TRUE]

\* Mutant of Touch: the token is not compared
Touch_noTokenCheck(L, id, token, t) ==
    IF id \notin DOMAIN L THEN [L |-> L, ok |-> FALSE]
    ELSE IF L[id].Locked = FALSE THEN [L |-> L, ok |-> FALSE]
    ELSE [L |-> [L EXCEPT ![id].LastTouch = t], ok |-> TRUE]

\* Mutant of Touch: a heartbeat with a wrong token is refused but still
\* stamps LastTouch
Touch_stampOnWrongToken(L, id, token, t) ==
    IF id \notin DOMAIN L THEN [L |-> L, ok |-> FALSE]
    ELSE IF L[id].Locked = FALSE THEN [L |-> L, ok |-> FALSE]
    ELSE IF L[id].Token # token
         THEN [L |-> [L EXCEPT ![id].LastTouch = t], ok |-> FALSE]
    ELSE [L |-> [L EXCEPT ![id].LastTouch = t], ok |-> TRUE]

\* func (lm *LockerManager) Touch(id, token) bool
Touch(L, id, token, t) ==
    IF id \notin DOMAIN L THEN [L |-> L, ok |-> FALSE]
    ELSE IF L[id].Locked = FALSE THEN [L |-> L, ok |-> FALSE]
    ELSE IF L[id].Token # token THEN [L |-> L, ok |-> FALSE]
    ELSE [L |-> [L EXCEPT ![id].LastTouch = t], ok |-> TRUE]

\* Mutant of gc: the acquisition-TTL is looked at before the existence-TTL
gcBranch_unlockFirst(l, t) ==
    IF l.Locked /\ t - l.LastTouch > AutoUnlockInterval THEN "unlock"
    ELSE IF t - l.LastHold > AutoFreeInterval THEN "free"
    ELSE "none"

\* Mutant of gc: a record is expired as soon as an interval has elapsed,
\* not once it is exceeded
gcBranch_atTTL(l, t) ==
    IF t - l.LastHold >= AutoFreeInterval THEN "free"
    ELSE IF l.Locked /\ t - l.LastTouch >= AutoUnlockInterval THEN "unlock"
    ELSE "none"

\* func (lm *LockerManager) gc(l *Locker), with l the record stored under
\* id: which of its two branches is taken at time t
gcBranch(l, t) ==
    IF t - l.LastHold > AutoFreeInterval THEN "free"
    ELSE IF l.Locked /\ t - l.LastTouch > AutoUnlockInterval THEN "unlock"
    ELSE "none"

\* func (lm *LockerManager) gc(l *Locker): the map after it
gc(L, id, t) ==
    LET l == L[id] IN
    IF gcBranch(l, t) = "free" THEN Free(L, l.Id, l.Secret).L
    ELSE IF gcBranch(l, t) = "unlock" THEN Unlock(L, l.Id, l.Token).L
    ELSE L

\* func (lm *LockerManager) GC(): gc on every record of the map.  Go's range
\* over a map skips entries deleted during the iteration, and gc(l) touches
\* no record but l, so the order of the iteration does not matter.
RECURSIVE GCRange(_, _, _)
GCRange(L, ids, t) ==
    IF ids = {} THEN L
    ELSE LET id == CHOOSE x \in ids : TRUE
         IN GCRange(IF id \in DOMAIN L THEN gc(L, id, t) ELSE L,
                    ids \ {id}, t)

GC(L, t) == GCRange(L, DOMAIN L, t)

\* Mutant of Lock: a locked record is locked again
Lock_noLockedCheck(L, id, t, fresh) ==
    IF id \notin DOMAIN L THEN [L |-> L, token |-> EmptyStr]
    ELSE LET L1 == gc(L, id, t)
         IN [L |-> IF id \in DOMAIN L1
                   THEN [L1 EXCEPT ![id].Token = fresh,
                                   ![id].Locked = TRUE,
                                   ![id].LastTouch = t]
                   ELSE L1,
             token |-> fresh]

\* Mutant of Lock: the token returned is not stored in the record
Lock_tokenNotStored(L, id, t, fresh) ==
    IF id \notin DOMAIN L THEN [L |-> L, token |-> EmptyStr]
    ELSE LET L1 == gc(L, id, t)
             l == IF id \in DOMAIN L1 THEN L1[id] ELSE L[id]
         IN IF l.Locked = TRUE THEN [L |-> L1, token |-> EmptyStr]
            ELSE [L |-> IF id \in DOMAIN L1
                        THEN [L1 EXCEPT ![id].Locked = TRUE,
                                        ![id].LastTouch = t]
                        ELSE L1,
                  token |-> fresh]

\* func (lm *LockerManager) Lock(id) (token).  l is a pointer: when gc(l)
\* deletes the record from the map, l still points at the struct and the
\* rest of Lock runs on it.
Lock(L, id, t, fresh) ==
    IF id \notin DOMAIN L THEN [L |-> L, token |-> EmptyStr]
    ELSE LET L1 == gc(L, id, t)
             l == IF id \in DOMAIN L1 THEN L1[id] ELSE L[id]
         IN IF l.Locked = TRUE THEN [L |-> L1, token |-> EmptyStr]
            ELSE [L |-> IF id \in DOMAIN L1
                        THEN [L1 EXCEPT ![id].Token = fresh,
                                        ![id].Locked = TRUE,
                                        ![id].LastTouch = t]
                        ELSE L1,
                  token |-> fresh]

\* func (lm *LockerManager) Status() Status
Status(L) ==
    [Total |-> Cardinality(DOMAIN L),
     Locked |-> Cardinality({x \in DOMAIN L : L[x].Locked})]

\* Mutant of the wlock/status closure: the record is classified as it is
\* stored, without the expiry check
StatusOne_noGc(L, id, t) ==
    [L |-> L,
     status |-> IF id \notin DOMAIN L THEN not_found
                ELSE IF L[id].Locked THEN locked ELSE unlocked]

\* The closure of the wlock/status handler
StatusOne(L, id, t) ==
    LET L1 == IF id \in DOMAIN L THEN gc(L, id, t) ELSE L
    IN [L |-> L1,
        status |-> IF id \notin DOMAIN L1 THEN not_found
                   ELSE IF L1[id].Locked THEN locked ELSE unlocked]

\* ----------------------------------------------------------------- inputs
\* What a caller may send: as id, every id New() can hand out and one it
\* never does; as secret or token, every value NextSecret() can return, one
\* it never does, and the empty string; and an argument list of the wrong
\* length.
IdInputs == {Sprint(k) : k \in 1..(MaxIds + 1)}
CapInputs == {EmptyStr} \cup {DefaultNextSecret(k) : k \in 1..(MaxSecrets + 1)}
Args1 == {<<>>} \cup {<<i>> : i \in IdInputs}
Args2 == {<<>>} \cup {<<i, c>> : i \in IdInputs, c \in CapInputs}

\* ---------------------------------------------------------------- history
Executed(op, args, resp) == [op |-> op, args |-> args, resp |-> resp]

\* No command has been executed whose response is still to be returned
Idle == Executed("none", <<>>, OK(<<>>))

\* The tokens whose acquisition an expiry check on the records ids ends at
\* time t: gc(l) takes a branch and l is locked under that token.
Expired(L, ids, t) ==
    {L[x].Token : x \in {y \in ids \cap DOMAIN L :
                            L[y].Locked /\ gcBranch(L[y], t) # "none"}}

EndTokens(iss, toks, how) ==
    [k \in DOMAIN iss |->
        IF k \in toks /\ iss[k].state = "live"
        THEN [iss[k] EXCEPT !.state = how] ELSE iss[k]]

Bump(f, k) ==
    [x \in DOMAIN f \cup {k} |->
        IF x = k THEN (IF k \in DOMAIN f /\ f[k] >= 1 THEN 2 ELSE 1)
        ELSE f[x]]

\* The goroutines of the race: caller 0 creates a lock through wlock/new
\* and, once it has the id, callers 1..NumLockers each send wlock/lock for
\* that id.
Callers == 0..NumLockers
NoFn == [caller |-> -1, op |-> "none", args |-> <<>>, seq |-> 0]

\* The client goroutines of TestLocker, the methods each calls in turn, and
\* a client before its first call: its place in call(), the calls it has
\* made, its variables id, secret and token, and as history what its calls
\* returned and when its New and its Lock ran
Clients == 1..NumClients
Calls == <<"New", "Lock", "Unlock", "Free">>
NoClient ==
    [pc |-> "idle", step |-> 0, synch |-> FALSE, id |-> EmptyStr,
     secret |-> EmptyStr, token |-> EmptyStr, ok |-> <<>>,
     tNew |-> -1, tLock |-> -1]
NoResult == [resp |-> Error(<<"pending">>), at |-> -1, nth |-> 0, found |-> FALSE]

\* ------------------------------------------------------------------- Init
\* func New() *LockerManager
Init ==
    /\ Lockers = <<>>
    /\ nextId = 1
    /\ nextSecret = 1
    /\ now = 0
    /\ gcWake = GCInterval
    /\ last = Idle
    /\ freeOK = <<>>
    /\ issued = <<>>
    /\ C = <<>>
    /\ running = NoFn
    /\ pc = [c \in Callers |-> "idle"]
    /\ closed = {}
    /\ result = [c \in Callers |-> NoResult]
    /\ sent = 0
    /\ ran = 0
    /\ client = [c \in Clients |-> NoClient]
    /\ polls = 0

\* ---------------------------------------------------------------- actions
\* Each handler of Enable, with the closure it passes to lm.Sync executed by
\* the loop as one step.

\* wlock/new
wlock_new ==
    /\ nextId <= MaxIds
    /\ nextSecret <= MaxSecrets
    /\ LET r == New(Lockers, Sprint(nextId), DefaultNextSecret(nextSecret), now)
       IN /\ Lockers' = r.L
          /\ last' = Executed("wlock/new", <<>>, OK(<<r.id, r.secret>>))
    /\ nextId' = nextId + 1
    /\ nextSecret' = nextSecret + 1
    /\ UNCHANGED <<now, gcWake, freeOK, issued>>

\* wlock/free
wlock_free(args) ==
    IF Len(args) # 2
    THEN /\ last' = Executed("wlock/free", args, Error(<<args_err>>))
         /\ UNCHANGED <<Lockers, nextId, nextSecret, now, gcWake, freeOK, issued>>
    ELSE LET r == Free(Lockers, args[1], args[2])
         IN /\ Lockers' = r.L
            /\ last' = Executed("wlock/free", args,
                                IF r.ok THEN OK(<<>>) ELSE Error(<<>>))
            /\ freeOK' = IF r.ok THEN Bump(freeOK, args) ELSE freeOK
            /\ UNCHANGED <<nextId, nextSecret, now, gcWake, issued>>

\* wlock/renew
wlock_renew(args) ==
    IF Len(args) # 2
    THEN /\ last' = Executed("wlock/renew", args, Error(<<args_err>>))
         /\ UNCHANGED <<Lockers, nextId, nextSecret, now, gcWake, freeOK, issued>>
    ELSE LET r == Hold(Lockers, args[1], args[2], now)
         IN /\ Lockers' = r.L
            /\ last' = Executed("wlock/renew", args,
                                IF r.ok THEN OK(<<>>) ELSE Error(<<>>))
            /\ UNCHANGED <<nextId, nextSecret, now, gcWake, freeOK, issued>>

\* wlock/status
wlock_status(args) ==
    IF Len(args) # 1
    THEN /\ last' = Executed("wlock/status", args, Error(<<args_err>>))
         /\ UNCHANGED <<Lockers, nextId, nextSecret, now, gcWake, freeOK, issued>>
    ELSE LET r == StatusOne(Lockers, args[1], now)
         IN /\ Lockers' = r.L
            /\ last' = Executed("wlock/status", args, OK(<<r.status>>))
            /\ issued' = EndTokens(issued, Expired(Lockers, {args[1]}, now),
                                   "expired by status")
            /\ UNCHANGED <<nextId, nextSecret, now, gcWake, freeOK>>

\* wlock/lock
wlock_lock(args) ==
    IF Len(args) # 1
    THEN /\ last' = Executed("wlock/lock", args, Error(<<args_err>>))
         /\ UNCHANGED <<Lockers, nextId, nextSecret, now, gcWake, freeOK, issued>>
    ELSE LET r == Lock(Lockers, args[1], now, DefaultNextSecret(nextSecret))
             ended == EndTokens(issued, Expired(Lockers, {args[1]}, now),
                                "expired by acquire")
         IN /\ Len(r.token) > 0 => nextSecret <= MaxSecrets
            /\ Lockers' = r.L
            /\ last' = Executed("wlock/lock", args,
                                IF Len(r.token) > 0 THEN OK(<<r.token>>)
                                                    ELSE Error(<<>>))
            /\ nextSecret' = IF Len(r.token) > 0 THEN nextSecret + 1
                                                 ELSE nextSecret
            /\ issued' =
                 IF Len(r.token) > 0
                 THEN [k \in DOMAIN ended \cup {r.token} |->
                         IF k = r.token
                         THEN [id |-> args[1], state |-> "live",
                               releases |-> 0, n |-> nextSecret, at |-> now]
                         ELSE ended[k]]
                 ELSE ended
            /\ UNCHANGED <<nextId, now, gcWake, freeOK>>

\* wlock/unlock
wlock_unlock(args) ==
    IF Len(args) # 2
    THEN /\ last' = Executed("wlock/unlock", args, Error(<<args_err>>))
         /\ UNCHANGED <<Lockers, nextId, nextSecret, now, gcWake, freeOK, issued>>
    ELSE LET r == Unlock(Lockers, args[1], args[2])
         IN /\ Lockers' = r.L
            /\ last' = Executed("wlock/unlock", args,
                                IF r.ok THEN OK(<<>>) ELSE Error(<<>>))
            /\ issued' =
                 IF r.ok /\ args[2] \in DOMAIN issued
                 THEN [issued EXCEPT ![args[2]].state = "released",
                                     ![args[2]].releases =
                                         IF @ >= 1 THEN 2 ELSE 1]
                 ELSE issued
            /\ UNCHANGED <<nextId, nextSecret, now, gcWake, freeOK>>

\* wlock/touch
wlock_touch(args) ==
    IF Len(args) # 2
    THEN /\ last' = Executed("wlock/touch", args, Error(<<args_err>>))
         /\ UNCHANGED <<Lockers, nextId, nextSecret, now, gcWake, freeOK, issued>>
    ELSE LET r == Touch(Lockers, args[1], args[2], now)
         IN /\ Lockers' = r.L
            /\ last' = Executed("wlock/touch", args,
                                IF r.ok THEN OK(<<>>) ELSE Error(<<>>))
            /\ UNCHANGED <<nextId, nextSecret, now, gcWake, freeOK, issued>>

\* wlock/admin/status
wlock_admin_status ==
    /\ last' = Executed("wlock/admin/status", <<>>,
                        OK(<<Marshal(Status(Lockers))>>))
    /\ UNCHANGED <<Lockers, nextId, nextSecret, now, gcWake, freeOK, issued>>

\* The goroutine of loop(): time.Sleep(lm.GCInterval) is over, the closure
\* calling lm.GC() is sent and executed, and the goroutine sleeps again.
GCSweep ==
    /\ Lockers' = GC(Lockers, now)
    /\ last' = Executed("GC", <<>>, OK(<<>>))
    /\ issued' = EndTokens(issued, Expired(Lockers, DOMAIN Lockers, now),
                           "expired by sweep")
    /\ UNCHANGED <<nextId, nextSecret, now, freeOK>>

GCTimer ==
    /\ now >= gcWake
    /\ GCSweep
    /\ gcWake' = now + GCInterval

\* The clock advances by one unit.
Tick ==
    /\ now < MaxTime
    /\ now' = now + 1
    /\ UNCHANGED <<Lockers, nextId, nextSecret, gcWake, last, freeOK, issued>>

\* The handler returns the response of the command executed last to the
\* rpc server (return wret.OK(...), return wret.Error(...)).
Respond ==
    /\ last # Idle
    /\ last' = Idle
    /\ UNCHANGED <<Lockers, nextId, nextSecret, now, gcWake, freeOK, issued>>

\* A step of the handlers alone leaves the channel and the callers as they
\* are; a command is executed once the response of the one before it has
\* been returned.
Next ==
    \/ last = Idle /\ wlock_new /\ UNCHANGED sync
    \/ last = Idle /\ \E args \in Args1 : wlock_lock(args) /\ UNCHANGED sync
    \/ last = Idle /\ \E args \in Args2 : wlock_touch(args) /\ UNCHANGED sync
    \/ last = Idle /\ \E args \in Args2 : wlock_unlock(args) /\ UNCHANGED sync
    \/ last = Idle /\ \E args \in Args1 : wlock_status(args) /\ UNCHANGED sync
    \/ last = Idle /\ \E args \in Args2 : wlock_renew(args) /\ UNCHANGED sync
    \/ last = Idle /\ \E args \in Args2 : wlock_free(args) /\ UNCHANGED sync
    \/ last = Idle /\ wlock_admin_status /\ UNCHANGED sync
    \/ last = Idle /\ GCTimer /\ UNCHANGED sync
    \/ last = Idle /\ Tick /\ UNCHANGED sync
    \/ Respond /\ UNCHANGED sync

\* The handlers executed one command at a time, in any order, with any
\* arguments, while the clock advances and the GC timer fires.
Spec == Init /\ [][Next]_vars

\* ------------------------------------------------- the loop and lm.Sync
\* func (lm *LockerManager) Sync(fn): lm.C <- closure.  The send blocks
\* while the buffer of C is full.
Send(c) ==
    /\ pc[c] = "idle"
    /\ c # 0 => pc[0] = "done"
    /\ Len(C) < DEFAULT_SIZE
    /\ C' = Append(C, IF c = 0
                      THEN [caller |-> c, op |-> "wlock/new", args |-> <<>>,
                            seq |-> sent + 1]
                      ELSE [caller |-> c, op |-> "wlock/lock",
                            args |-> <<result[0].resp.vals[1]>>,
                            seq |-> sent + 1])
    /\ pc' = [pc EXCEPT ![c] = "wait"]
    /\ sent' = sent + 1
    /\ UNCHANGED <<store, running, closed, result, ran, client, polls>>

\* Mutant of Return: Sync returns without waiting for done to be closed
Return_noWait(c) ==
    /\ pc[c] = "wait"
    /\ pc' = [pc EXCEPT ![c] = "done"]
    /\ UNCHANGED <<store, C, running, closed, result, sent, ran, client, polls>>

\* func (lm *LockerManager) Sync(fn): <-done
Return(c) ==
    /\ pc[c] = "wait"
    /\ c \in closed
    /\ pc' = [pc EXCEPT ![c] = "done"]
    /\ UNCHANGED <<store, C, running, closed, result, sent, ran, client, polls>>

\* Mutant of TimerSend: the timer goroutine calls lm.GC() itself
TimerSend_direct ==
    /\ now >= gcWake
    /\ GCSweep
    /\ gcWake' = now + GCInterval
    /\ UNCHANGED sync

\* The goroutine of loop(): after time.Sleep(lm.GCInterval) it sends the
\* closure that calls lm.GC(), and sleeps again.
TimerSend ==
    /\ now >= gcWake
    /\ Len(C) < DEFAULT_SIZE
    /\ C' = Append(C, [caller |-> -1, op |-> "GC", args |-> <<>>,
                       seq |-> sent + 1])
    /\ gcWake' = now + GCInterval
    /\ sent' = sent + 1
    /\ UNCHANGED <<Lockers, nextId, nextSecret, now, last, freeOK, issued,
                   running, pc, closed, result, ran, client, polls>>

\* func (lm *LockerManager) loop(): for fn := range lm.C
Receive ==
    /\ running = NoFn
    /\ C # <<>>
    /\ running' = Head(C)
    /\ C' = Tail(C)
    /\ UNCHANGED <<store, pc, closed, result, sent, ran, client, polls>>

\* func (lm *LockerManager) loop(): fn(lm), for the closure of Sync: the
\* handler's fn runs, then the deferred close(done)
Ran(resp, id) ==
    [resp |-> resp, at |-> now,
     nth |-> Cardinality({c \in Callers : result[c].nth > 0}) + 1,
     found |-> id \in DOMAIN Lockers]

RunNew ==
    /\ running.op = "wlock/new"
    /\ wlock_new
    /\ result' = [result EXCEPT ![running.caller] =
                     Ran(last'.resp, EmptyStr)]
    /\ closed' = closed \cup {running.caller}
    /\ running' = NoFn
    /\ ran' = ran + 1
    /\ UNCHANGED <<C, pc, sent, client, polls>>

RunLock ==
    /\ running.op = "wlock/lock"
    /\ wlock_lock(running.args)
    /\ result' = [result EXCEPT ![running.caller] =
                     Ran(last'.resp, running.args[1])]
    /\ closed' = closed \cup {running.caller}
    /\ running' = NoFn
    /\ ran' = ran + 1
    /\ UNCHANGED <<C, pc, sent, client, polls>>

\* func (lm *LockerManager) loop(): fn(lm), for the closure of the timer
RunGC ==
    /\ running.op = "GC"
    /\ GCSweep
    /\ running' = NoFn
    /\ ran' = ran + 1
    /\ UNCHANGED <<gcWake, C, pc, closed, result, sent, client, polls>>

NextLoop ==
    \/ \E c \in Callers : Send(c)
    \/ \E c \in Callers : Return(c)
    \/ TimerSend
    \/ Receive
    \/ RunNew
    \/ RunLock
    \/ RunGC
    \/ Tick /\ UNCHANGED sync

\* NumLockers goroutines racing through lm.Sync for the lock one goroutine
\* created, with the loop, the GC timer and the clock.
SpecLoop == Init /\ [][NextLoop]_vars

\* ------------------------------------------------------------ TestLocker
\* call(fn) of a client goroutine: lm.C <- closure.  The closure reads id,
\* secret and token when the loop runs it.
ClientSend(c) ==
    /\ client[c].pc = "idle"
    /\ client[c].step < Len(Calls)
    /\ Len(C) < DEFAULT_SIZE
    /\ C' = Append(C, [caller |-> c, op |-> Calls[client[c].step + 1],
                       args |-> <<>>, seq |-> sent + 1])
    /\ client' = [client EXCEPT ![c].pc = "wait"]
    /\ sent' = sent + 1
    /\ UNCHANGED <<store, running, pc, closed, result, ran, polls>>

\* call(fn) of a client goroutine: <-synch, and on to the next call; after
\* the last one the goroutine ends and its variables are gone
ClientReturn(c) ==
    /\ client[c].pc = "wait"
    /\ client[c].synch
    /\ client' = [client EXCEPT ![c] =
                     IF client[c].step + 1 < Len(Calls)
                     THEN [@ EXCEPT !.pc = "idle", !.synch = FALSE,
                                    !.step = @ + 1]
                     ELSE [NoClient EXCEPT !.step = Len(Calls),
                                           !.ok = client[c].ok]]
    /\ UNCHANGED <<store, C, running, pc, closed, result, sent, ran, polls>>

\* The status goroutine of TestLocker: lm.C <- closure, then it sleeps
PollSend ==
    /\ polls < MaxPolls
    /\ Len(C) < DEFAULT_SIZE
    /\ C' = Append(C, [caller |-> -1, op |-> "Status", args |-> <<>>,
                       seq |-> sent + 1])
    /\ polls' = polls + 1
    /\ sent' = sent + 1
    /\ UNCHANGED <<store, running, pc, closed, result, ran, client>>

\* The loop has run the closure of a client's call: fn() has assigned what
\* the method returned, and synch <- true
Called(c, okay) ==
    [client EXCEPT ![c].ok = Append(@, okay), ![c].synch = TRUE]

\* fn(lm) for the closure of a client: id, secret = lm.New()
RunClientNew ==
    /\ running.op = "New"
    /\ LET c == running.caller
           r == New(Lockers, Sprint(nextId), DefaultNextSecret(nextSecret), now)
       IN /\ Lockers' = r.L
          /\ client' = [Called(c, TRUE) EXCEPT ![c].id = r.id,
                                               ![c].secret = r.secret,
                                               ![c].tNew = now]
    /\ nextId' = nextId + 1
    /\ nextSecret' = nextSecret + 1
    /\ running' = NoFn
    /\ ran' = ran + 1
    /\ UNCHANGED <<now, gcWake, last, freeOK, issued, C, pc, closed, result,
                   sent, polls>>

\* fn(lm) for the closure of a client: token = lm.Lock(id)
RunClientLock ==
    /\ running.op = "Lock"
    /\ LET c == running.caller
           r == Lock(Lockers, client[c].id, now, DefaultNextSecret(nextSecret))
       IN /\ Lockers' = r.L
          /\ nextSecret' = IF Len(r.token) > 0 THEN nextSecret + 1
                                               ELSE nextSecret
          /\ client' = [Called(c, Len(r.token) > 0) EXCEPT
                           ![c].token = r.token, ![c].tLock = now]
    /\ running' = NoFn
    /\ ran' = ran + 1
    /\ UNCHANGED <<nextId, now, gcWake, last, freeOK, issued, C, pc, closed,
                   result, sent, polls>>

\* fn(lm) for the closure of a client: lm.Unlock(id, token)
RunClientUnlock ==
    /\ running.op = "Unlock"
    /\ LET c == running.caller
           r == Unlock(Lockers, client[c].id, client[c].token)
       IN /\ Lockers' = r.L
          /\ client' = Called(c, r.ok)
    /\ running' = NoFn
    /\ ran' = ran + 1
    /\ UNCHANGED <<nextId, nextSecret, now, gcWake, last, freeOK, issued, C,
                   pc, closed, result, sent, polls>>

\* fn(lm) for the closure of a client: lm.Free(id, secret)
RunClientFree ==
    /\ running.op = "Free"
    /\ LET c == running.caller
           r == Free(Lockers, client[c].id, client[c].secret)
       IN /\ Lockers' = r.L
          /\ client' = Called(c, r.ok)
    /\ running' = NoFn
    /\ ran' = ran + 1
    /\ UNCHANGED <<nextId, nextSecret, now, gcWake, last, freeOK, issued, C,
                   pc, closed, result, sent, polls>>

\* fn(lm) for the closure of the status goroutine: s := lm.Status() is
\* printed and dropped; the store is only read
RunStatus ==
    /\ running.op = "Status"
    /\ running' = NoFn
    /\ ran' = ran + 1
    /\ UNCHANGED <<store, C, pc, closed, result, sent, client, polls>>

NextClients ==
    \/ \E c \in Clients : ClientSend(c)
    \/ \E c \in Clients : ClientReturn(c)
    \/ PollSend
    \/ TimerSend
    \/ Receive
    \/ RunClientNew
    \/ RunClientLock
    \/ RunClientUnlock
    \/ RunClientFree
    \/ RunStatus
    \/ RunGC
    \/ Tick /\ UNCHANGED sync

\* TestLocker: NumClients goroutines each calling New, Lock, Unlock and Free
\* for a lock of its own through the channel, with the status goroutine,
\* the loop, the GC timer and the clock.
SpecClients == Init /\ [][NextClients]_vars

\* The loop under fair scheduling: the goroutine of loop() keeps receiving
\* and running closures while there are any, and a goroutine inside Sync
\* that can send, or whose done channel is closed, goes on.  The timer and
\* the clock owe nothing.
WorkerStep == Receive \/ RunNew \/ RunLock \/ RunGC

ClientWorkerStep ==
    \/ Receive
    \/ RunClientNew
    \/ RunClientLock
    \/ RunClientUnlock
    \/ RunClientFree
    \/ RunStatus
    \/ RunGC

FairSpecLoop ==
    /\ SpecLoop
    /\ WF_vars(WorkerStep)
    /\ \A c \in Callers : WF_vars(Send(c)) /\ WF_vars(Return(c))

\* TestLocker under fair scheduling
FairSpecClients ==
    /\ SpecClients
    /\ WF_vars(ClientWorkerStep)
    /\ \A c \in Clients : WF_vars(ClientSend(c)) /\ WF_vars(ClientReturn(c))

\* ------------------------------------------------------------ vocabulary
\* The ids New() has returned so far
Created == {Sprint(k) : k \in 1..(nextId - 1)}

\* The record under id is past its existence-TTL / its acquisition-TTL
PastFree(L, id, t) == t - L[id].LastHold > AutoFreeInterval
PastUnlock(L, id, t) == L[id].Locked /\ t - L[id].LastTouch > AutoUnlockInterval

SecretOps == {"wlock/free", "wlock/renew"}
TokenOps == {"wlock/unlock", "wlock/touch"}

\* The command executed last addressed an id with a well-formed request
Addressed(e) ==
    \/ e.op \in SecretOps \cup TokenOps /\ Len(e.args) = 2
    \/ e.op \in {"wlock/lock", "wlock/status"} /\ Len(e.args) = 1

\* The not-found-class outcome of each operation
NotFoundOutcome(e) ==
    IF e.op = "wlock/status" THEN e.resp = OK(<<not_found>>)
    ELSE e.resp = Error(<<>>)

\* ----------------------------------------------------------------- claims
\* C2: in every reachable state every record of the store has a non-empty
\* token if and only if it is locked.
TokenIffLocked ==
    \A id \in DOMAIN Lockers :
        (Lockers[id].Token # EmptyStr) <=> Lockers[id].Locked

\* C2 witness: a record that was acquired, released and acquired again is
\* locked under its second token.
TokenIffLockedWitness ==
    \E id \in DOMAIN Lockers :
        /\ Lockers[id].Locked
        /\ Lockers[id].Token # EmptyStr
        /\ \E tok \in DOMAIN issued :
              issued[tok].id = id /\ issued[tok].state = "released"

\* What a step that executes a destroy, renew, release or heartbeat must satisfy
CapabilityStep ==
    LET e == last' IN
    (e.op \in SecretOps \cup TokenOps /\ Len(e.args) = 2) =>
        LET id == e.args[1]
            cap == e.args[2]
            match ==
                /\ id \in DOMAIN Lockers
                /\ IF e.op \in SecretOps
                   THEN Lockers[id].Secret = cap
                   ELSE Lockers[id].Locked /\ Lockers[id].Token = cap
        IN /\ e.resp.ok => match
           /\ ~match => e.resp = Error(<<>>) /\ Lockers' = Lockers

\* C3: a destroy or renew-existence succeeds only if the record exists and
\* the secret given is its secret; a release or heartbeat succeeds only if
\* the record exists, is locked and the token given is its token; a call
\* whose capability does not match fails and leaves the store as it was.
CapabilityChecked == [][CapabilityStep]_vars

\* C3 witness: a release with a wrong token was refused on a locked record,
\* which is still locked under its own token.
CapabilityCheckedWitness ==
    /\ last.op = "wlock/unlock"
    /\ Len(last.args) = 2
    /\ ~last.resp.ok
    /\ last.args[1] \in DOMAIN Lockers
    /\ Lockers[last.args[1]].Locked
    /\ Lockers[last.args[1]].Token # last.args[2]
    /\ last.args[2] # EmptyStr

\* What a step that executes a create, a status query or a destroy must satisfy
CreateDestroyStep ==
    LET e == last' IN
    /\ (e.op = "wlock/status" /\ Len(e.args) = 1
            /\ e.args[1] \in DOMAIN Lockers
            /\ Lockers[e.args[1]] =
                  Locker(e.args[1], Lockers[e.args[1]].Secret, now))
         => e.resp = OK(<<unlocked>>)
    /\ (e.op = "wlock/free" /\ Len(e.args) = 2
            /\ e.args[1] \in DOMAIN Lockers
            /\ e.args[2] = Lockers[e.args[1]].Secret)
         => e.resp = OK(<<>>) /\ e.args[1] \notin DOMAIN Lockers'
    /\ (e.op = "wlock/free" /\ Len(e.args) = 2 /\ e.args \in DOMAIN freeOK)
         => e.resp = Error(<<>>)
    /\ \A p \in DOMAIN freeOK' : freeOK'[p] = 1
    /\ e.op = "wlock/new" =>
         /\ e.resp.vals[1] \notin Created
         /\ \A p \in DOMAIN freeOK : p[1] # e.resp.vals[1]
         /\ e.resp.vals[1] \in DOMAIN Lockers'
         /\ Lockers'[e.resp.vals[1]] =
               Locker(e.resp.vals[1], e.resp.vals[2], now)

LiveTokenStep ==
    LET e == last' IN
    (e.op \in TokenOps /\ Len(e.args) = 2 /\ e.args[2] \in DOMAIN issued
        /\ issued[e.args[2]].id = e.args[1]
        /\ issued[e.args[2]].state = "live")
      => e.resp = OK(<<>>)

\* C5 as stated: until its acquisition is released or expired, a token that
\* Acquire returned is accepted by every Heartbeat and by a Release.
LiveTokenAccepted == [][LiveTokenStep]_vars

\* What a step that executes a release or heartbeat with a live token must satisfy, as amended
LiveTokenInStoreStep ==
    LET e == last' IN
    /\ (e.op \in TokenOps /\ Len(e.args) = 2 /\ e.args[2] \in DOMAIN issued
           /\ issued[e.args[2]].id = e.args[1]
           /\ issued[e.args[2]].state = "live"
           /\ e.args[1] \in DOMAIN Lockers)
         => e.resp = OK(<<>>)
    /\ \A tok \in DOMAIN issued' : issued'[tok].releases <= 1

\* C5 as amended: until its acquisition is released or expired, and while
\* the record is still in the store (it was not destroyed, and was not
\* already past its existence-TTL when Acquire ran), the token is accepted
\* by every Heartbeat and by a Release; and no token is ever released with
\* success twice.
LiveTokenInStoreAccepted == [][LiveTokenInStoreStep]_vars

\* C5 witness: a heartbeat with the live token of a locked record has just
\* succeeded.
LiveTokenWitness ==
    /\ last.op = "wlock/touch"
    /\ last.resp.ok
    /\ last.args[2] \in DOMAIN issued
    /\ issued[last.args[2]].state = "live"
    /\ issued[last.args[2]].id = last.args[1]

\* What a step that presents a released token, or acquires, must satisfy
StaleTokenStep ==
    LET e == last' IN
    /\ (e.op \in TokenOps /\ Len(e.args) = 2 /\ e.args[2] \in DOMAIN issued
           /\ issued[e.args[2]].state = "released")
         => e.resp = Error(<<>>) /\ Lockers' = Lockers
    /\ (e.op = "wlock/lock" /\ e.resp.ok)
         => e.resp.vals[1] \notin DOMAIN issued

\* C6: a token whose release has succeeded is refused by every later
\* release and heartbeat, also after the record is acquired again; and
\* every acquisition returns a token no earlier acquisition returned.
StaleTokenRejected == [][StaleTokenStep]_vars

\* C6 witness: after create, acquire, release, acquire, a heartbeat with
\* the first token has just been refused while the record is locked under
\* the second.
StaleTokenWitness ==
    /\ last.op = "wlock/touch"
    /\ Len(last.args) = 2
    /\ ~last.resp.ok
    /\ last.args[2] \in DOMAIN issued
    /\ issued[last.args[2]].state = "released"
    /\ last.args[1] = issued[last.args[2]].id
    /\ last.args[1] \in DOMAIN Lockers
    /\ Lockers[last.args[1]].Locked
    /\ Lockers[last.args[1]].Token \in DOMAIN issued
    /\ Lockers[last.args[1]].Token # last.args[2]

\* What a step on a record past its existence-TTL must satisfy
ExistenceExpiryStep ==
    LET e == last' IN
    /\ (Addressed(e) /\ e.args[1] \in DOMAIN Lockers
           /\ PastFree(Lockers, e.args[1], now))
         => NotFoundOutcome(e) /\ e.args[1] \notin DOMAIN Lockers'
    /\ e.op = "GC" =>
         \A id \in DOMAIN Lockers :
             PastFree(Lockers, id, now) => id \notin DOMAIN Lockers'

\* C7 as stated: once a record is past its existence-TTL, the next
\* operation addressing its id gets the not-found outcome and leaves the id
\* absent from the store, and so does the next sweep.
ExistenceExpiry == [][ExistenceExpiryStep]_vars

\* What a step on a record past its acquisition-TTL must satisfy
AcquisitionExpiryStep ==
    LET e == last' IN
    /\ (Addressed(e) /\ e.op # "wlock/free" /\ e.args[1] \in DOMAIN Lockers
           /\ ~PastFree(Lockers, e.args[1], now)
           /\ PastUnlock(Lockers, e.args[1], now)
           /\ (e.op \in TokenOps => e.args[2] = Lockers[e.args[1]].Token))
         => LET id == e.args[1] IN
            /\ id \in DOMAIN Lockers'
            /\ Lockers'[id].Secret = Lockers[id].Secret
            /\ Lockers'[id].Token # Lockers[id].Token
            /\ e.op = "wlock/lock" => e.resp.ok
            /\ e.op = "wlock/status" => e.resp = OK(<<unlocked>>)
            /\ e.op \in TokenOps => e.resp = Error(<<>>)
            /\ e.op # "wlock/lock" =>
                 ~Lockers'[id].Locked /\ Lockers'[id].Token = EmptyStr
    /\ e.op = "GC" =>
         \A id \in DOMAIN Lockers :
             (~PastFree(Lockers, id, now) /\ PastUnlock(Lockers, id, now))
               => /\ id \in DOMAIN Lockers'
                  /\ ~Lockers'[id].Locked
                  /\ Lockers'[id].Token = EmptyStr
                  /\ Lockers'[id].Secret = Lockers[id].Secret

\* C8 as stated: once a locked record, not past its existence-TTL, is past
\* its acquisition-TTL, the next operation addressing its id finds it
\* unlocked (a release or heartbeat with the old token is refused, an
\* acquire succeeds, a status query says unlocked) and the next sweep
\* unlocks it; the old token is gone and the record stays, with its secret.
AcquisitionExpiry == [][AcquisitionExpiryStep]_vars

\* C9 as stated: the status-all query returns as total the number of
\* records created, not destroyed and not past their existence-TTL at the
\* time of the call, and as locked the number of those that are locked and
\* not past their acquisition-TTL.
Reachable == {id \in DOMAIN Lockers : ~PastFree(Lockers, id, now)}

StatusAllCountsReachable ==
    last.op = "wlock/admin/status" =>
        last.resp = OK(<<Marshal(
            [Total |-> Cardinality(Reachable),
             Locked |-> Cardinality({id \in Reachable :
                            Lockers[id].Locked
                               /\ ~PastUnlock(Lockers, id, now)})])>>)

\* What a step addressing an id never created must satisfy
NeverCreatedStep ==
    LET e == last' IN
    (Addressed(e) /\ e.args[1] \notin Created)
      => NotFoundOutcome(e) /\ Lockers' = Lockers

\* C10: every operation addressing an id that New() never returned gets the
\* not-found outcome (false, the empty token, not_found) and leaves the
\* store as it was.
NeverCreatedNotFound == [][NeverCreatedStep]_vars

\* C10 witness: an acquire of an id never created has just failed while the
\* store holds other records.
NeverCreatedWitness ==
    /\ last.op = "wlock/lock"
    /\ Len(last.args) = 1
    /\ last.args[1] \notin Created
    /\ last.resp = Error(<<>>)
    /\ DOMAIN Lockers # {}

\* ------------------------------------------------------- claims, the race
\* The racing callers whose wlock/lock returned a token
Winners == {c \in 1..NumLockers : result[c].resp.ok}
AllReturned == \A c \in Callers : pc[c] = "done"

\* The record was in the store (and unlocked: nobody had acquired it) when
\* the loop ran the first wlock/lock of the race: nth = 1 is wlock/new
RaceOnExisting ==
    \E c \in 1..NumLockers : result[c].nth = 2 /\ result[c].found

AcquireStep ==
    LET e == last' IN
    (e.op = "wlock/lock" /\ Len(e.args) = 1) =>
        LET id == e.args[1] IN
        /\ (id \notin DOMAIN Lockers \/ PastFree(Lockers, id, now))
             => e.resp = Error(<<>>)
        /\ e.resp.ok =>
             /\ id \in DOMAIN Lockers'
             /\ Lockers'[id].Locked
             /\ <<Lockers'[id].Token>> = e.resp.vals

\* C14 as stated: an acquire returns the empty-string failure whenever no
\* record exists for the id or the record is past its existence-TTL; so
\* whenever it returns a token, the store afterwards holds a record for the
\* id that is locked under that token.
AcquireFailsOnAbsent == [][AcquireStep]_vars

\* What a step that executes a destroy, renew, release or heartbeat that
\* fails must satisfy
FailureStep ==
    LET e == last' IN
    (e.op \in SecretOps \cup TokenOps /\ ~e.resp.ok) => Lockers' = Lockers

\* C15: whenever a destroy, renew-existence, release or heartbeat fails
\* (record missing, wrong secret, not locked, wrong token, or a wrong number
\* of arguments) the set of ids and every field of every record are as they
\* were before the call.
UnchangedOnFailure == [][FailureStep]_vars

\* C15 witness: a destroy with a secret that is not the record's has just
\* failed on a locked record, and a heartbeat-able token is still stored.
UnchangedOnFailureWitness ==
    /\ last.op = "wlock/free"
    /\ Len(last.args) = 2
    /\ ~last.resp.ok
    /\ last.args[1] \in DOMAIN Lockers
    /\ Lockers[last.args[1]].Secret # last.args[2]
    /\ last.args[2] # EmptyStr
    /\ Lockers[last.args[1]].Locked

\* The record r2 is the record r1 but for the fields named in fields
SameBut(r1, r2, fields) ==
    \A f \in {"Id", "Secret", "Token", "Locked", "LastHold", "LastTouch"} \ fields :
        r1[f] = r2[f]

\* What a step must leave alone, operation by operation
FrameStep ==
    LET e == last'
        ok2(op) == e.op = op /\ Len(e.args) = 2 /\ e.resp.ok
    IN
    /\ ok2("wlock/renew") =>
         /\ e.args[1] \in DOMAIN Lockers
         /\ Lockers' = [Lockers EXCEPT ![e.args[1]].LastHold = now]
    /\ ok2("wlock/touch") =>
         /\ e.args[1] \in DOMAIN Lockers
         /\ Lockers' = [Lockers EXCEPT ![e.args[1]].LastTouch = now]
    /\ ok2("wlock/unlock") =>
         /\ e.args[1] \in DOMAIN Lockers
         /\ Lockers' = [Lockers EXCEPT ![e.args[1]].Token = EmptyStr,
                                       ![e.args[1]].Locked = FALSE]
    /\ (e.op = "wlock/lock" /\ Len(e.args) = 1 /\ e.resp.ok) =>
         /\ e.args[1] \in DOMAIN Lockers
         /\ Lockers' = [Lockers EXCEPT ![e.args[1]].Token = e.resp.vals[1],
                                       ![e.args[1]].Locked = TRUE,
                                       ![e.args[1]].LastTouch = now]
    /\ \A id \in DOMAIN Lockers \cap DOMAIN Lockers' :
         /\ SameBut(Lockers[id], Lockers'[id],
                    {"Token", "Locked", "LastHold", "LastTouch"})
         /\ Lockers'[id].LastHold # Lockers[id].LastHold
              => ok2("wlock/renew") /\ e.args[1] = id
    /\ (Addressed(e) \/ e.op \in {"wlock/new", "wlock/admin/status"}) =>
         \A id \in DOMAIN Lockers :
            (Len(e.args) = 0 \/ id # e.args[1])
              => id \in DOMAIN Lockers' /\ Lockers'[id] = Lockers[id]

\* C16 as stated: a successful renew-existence changes only LastHold of the
\* record it addresses, a successful heartbeat only LastTouch, a successful
\* release only Token and Locked, a successful acquire only Token, Locked
\* and LastTouch; LastHold of a record changes only by a renew-existence;
\* Id and Secret of a record never change; and no operation changes a
\* record other than the one it addresses.
FieldFrame == [][FrameStep]_vars

\* What a step that executes the sweep must satisfy
SweepStep ==
    LET e == last' IN
    e.op = "GC" =>
        /\ DOMAIN Lockers' \subseteq DOMAIN Lockers
        /\ \A id \in DOMAIN Lockers' :
              ~PastFree(Lockers', id, now) /\ ~PastUnlock(Lockers', id, now)
        /\ \A id \in DOMAIN Lockers :
              /\ PastFree(Lockers, id, now) => id \notin DOMAIN Lockers'
              /\ (~PastFree(Lockers, id, now) /\ PastUnlock(Lockers, id, now))
                   => /\ id \in DOMAIN Lockers'
                      /\ Lockers'[id] = [Lockers[id] EXCEPT !.Token = EmptyStr,
                                                            !.Locked = FALSE]
              /\ (~PastFree(Lockers, id, now) /\ ~PastUnlock(Lockers, id, now))
                   => id \in DOMAIN Lockers' /\ Lockers'[id] = Lockers[id]

\* C17: right after a sweep the store holds no record past its
\* existence-TTL and no locked record past its acquisition-TTL; a record
\* past its existence-TTL (also one past both) is destroyed, a locked record
\* past its acquisition-TTL alone is unlocked and otherwise kept, and every
\* record past neither is exactly as it was.
SweepPostcondition == [][SweepStep]_vars

\* C17 witness: the sweep has just run; it ended the acquisition of a
\* locked record by destroying the record, and it kept another record.
SweepPostconditionWitness ==
    /\ last.op = "GC"
    /\ DOMAIN Lockers # {}
    /\ \E tok \in DOMAIN issued :
          /\ issued[tok].state = "expired by sweep"
          /\ issued[tok].id \notin DOMAIN Lockers

\* What a step that executes a status query must satisfy
StatusOneStep ==
    LET e == last' IN
    (e.op = "wlock/status" /\ Len(e.args) = 1) =>
        LET id == e.args[1] IN
        IF id \notin DOMAIN Lockers
        THEN e.resp = OK(<<not_found>>) /\ Lockers' = Lockers
        ELSE IF PastFree(Lockers, id, now)
        THEN e.resp = OK(<<not_found>>) /\ Lockers' = Remove(Lockers, id)
        ELSE IF PastUnlock(Lockers, id, now)
        THEN /\ e.resp = OK(<<unlocked>>)
             /\ Lockers' = [Lockers EXCEPT ![id].Token = EmptyStr,
                                           ![id].Locked = FALSE]
        ELSE /\ e.resp = OK(<<IF Lockers[id].Locked THEN locked ELSE unlocked>>)
             /\ Lockers' = Lockers

\* C18: a status query answers not_found when no record exists or the
\* record is past its existence-TTL, and then the record is removed;
\* unlocked when the record is unlocked, or is locked and past its
\* acquisition-TTL, and then Locked and Token are cleared; locked only when
\* the record is locked and past neither TTL; and the store is otherwise as
\* it was.
StatusOneClassifies == [][StatusOneStep]_vars

\* C18 witness: a status query has answered unlocked for a record whose
\* acquisition a status query ended, and the record is in the store,
\* unlocked, with no token.
StatusOneClassifiesWitness ==
    /\ last.op = "wlock/status"
    /\ last.resp = OK(<<unlocked>>)
    /\ last.args[1] \in DOMAIN Lockers
    /\ ~Lockers[last.args[1]].Locked
    /\ Lockers[last.args[1]].Token = EmptyStr
    /\ \E tok \in DOMAIN issued :
          /\ issued[tok].id = last.args[1]
          /\ issued[tok].state = "expired by status"

\* The command e is an expiry check that looks at the record under id: the
\* sweep, or the lazy check of an acquire or a status query on id
ChecksExpiry(e, id) ==
    \/ e.op = "GC"
    \/ e.op \in {"wlock/lock", "wlock/status"} /\ e.args = <<id>>

\* What a step that removes a record, or ends an acquisition, must be
LeaseStep ==
    LET e == last' IN
    \A id \in DOMAIN Lockers :
        /\ id \notin DOMAIN Lockers' =>
             \/ /\ e.op = "wlock/free"
                /\ e.args = <<id, Lockers[id].Secret>>
                /\ e.resp.ok
             \/ ChecksExpiry(e, id) /\ PastFree(Lockers, id, now)
        /\ (/\ Lockers[id].Locked
            /\ id \in DOMAIN Lockers'
            /\ \/ ~Lockers'[id].Locked
               \/ Lockers'[id].Token # Lockers[id].Token) =>
             \/ /\ e.op = "wlock/unlock"
                /\ e.args = <<id, Lockers[id].Token>>
                /\ e.resp.ok
             \/ ChecksExpiry(e, id) /\ PastUnlock(Lockers, id, now)
        /\ (/\ e.op = "wlock/lock"
            /\ e.args = <<id>>
            /\ Lockers[id].Locked
            /\ ~PastFree(Lockers, id, now)
            /\ ~PastUnlock(Lockers, id, now)) =>
             e.resp = Error(<<>>) /\ Lockers' = Lockers

\* C19: a record leaves the store only by a successful destroy with its
\* secret or by an expiry check run when it is past its existence-TTL; a
\* locked record that stays loses its lock or its token only by a
\* successful release with its token or by an expiry check run when it is
\* past its acquisition-TTL; and an acquire of a locked record past neither
\* TTL fails and changes nothing.
LeaseSafety == [][LeaseStep]_vars

\* C19 witness: the sweep has just run, later than the existence-TTL after
\* time 0, and has left locked, under the token it was acquired with at
\* time 0, a record that renewals and heartbeats kept within both TTLs.
LeaseSafetyWitness ==
    /\ last.op = "GC"
    /\ \E id \in DOMAIN Lockers :
          /\ Lockers[id].Locked
          /\ Lockers[id].Token \in DOMAIN issued
          /\ issued[Lockers[id].Token].state = "live"
          /\ issued[Lockers[id].Token].at = 0
          /\ now - issued[Lockers[id].Token].at > AutoFreeInterval

\* How the history records an acquisition that an expiry check ended
ExpiredStates ==
    {"expired by acquire", "expired by status", "expired by sweep"}

\* The capabilities a release or a heartbeat of id would accept now
Accepted(id) ==
    {c \in CapInputs : Touch(Lockers, id, c, now).ok
                          \/ Unlock(Lockers, id, c).ok}

\* What a step that executes a release or a heartbeat must satisfy
ForcedReleaseStep ==
    LET e == last' IN
    /\ (e.op \in TokenOps /\ Len(e.args) = 2 /\ e.args[2] \in DOMAIN issued
           /\ issued[e.args[2]].state \in ExpiredStates)
         => e.resp = Error(<<>>) /\ Lockers' = Lockers
    /\ (e.op \in TokenOps /\ e.resp.ok) =>
         /\ e.args[2] \in DOMAIN issued
         /\ issued[e.args[2]].id = e.args[1]
         /\ issued[e.args[2]].state = "live"
         /\ \A tok \in DOMAIN issued :
               issued[tok].id = e.args[1] => issued[tok].n <= issued[e.args[2]].n
    /\ \A id \in IdInputs : Cardinality(Accepted(id)) <= 1

\* C20: a token whose acquisition an expiry check (of an acquire, of a
\* status query or of the sweep) has ended is refused by every later
\* release and heartbeat, also after the id is acquired again; a release or
\* heartbeat succeeds only with the token the most recent successful acquire
\* of the id returned, while its acquisition has not ended; and at any
\* moment at most one token value is accepted for an id.
ForcedReleaseTokenDead == [][ForcedReleaseStep]_vars

\* C20 witness: a heartbeat with a token that an expiry check ended has
\* just been refused while the record is locked again under a later token.
ForcedReleaseTokenDeadWitness ==
    /\ last.op = "wlock/touch"
    /\ Len(last.args) = 2
    /\ last.resp = Error(<<>>)
    /\ last.args[2] \in DOMAIN issued
    /\ issued[last.args[2]].state \in ExpiredStates
    /\ issued[last.args[2]].id = last.args[1]
    /\ last.args[1] \in DOMAIN Lockers
    /\ Lockers[last.args[1]].Locked
    /\ Lockers[last.args[1]].Token \in DOMAIN issued
    /\ issued[Lockers[last.args[1]].Token].state = "live"
    /\ issued[Lockers[last.args[1]].Token].n > issued[last.args[2]].n

\* ------------------------------------------------------ claims, the loop
\* A caller that has returned from Sync had its closure run to completion:
\* its result is assigned and its done channel closed; and while a closure
\* is queued or received, the loop has a step to take.
ReturnedAfterRun ==
    /\ \A c \in Callers :
          pc[c] = "done" => c \in closed /\ result[c] # NoResult
    /\ \A c \in closed : result[c] # NoResult
    /\ (C # <<>> \/ running # NoFn) => ENABLED WorkerStep

\* C13: Sync returns only after its closure has run to completion on the
\* loop; under fair scheduling every caller's Sync call returns, whatever
\* the order of the sends of the callers and of the GC timer; and a full
\* channel is always drained again, so that a blocked sender can send.
SyncAwaits ==
    /\ []ReturnedAfterRun
    /\ <>AllReturned
    /\ (Len(C) = DEFAULT_SIZE) ~> (Len(C) < DEFAULT_SIZE)

\* C13 witness: the channel is full while the loop has the closure of the
\* GC timer in hand, one caller waits for its closure to be run and another
\* cannot send yet.
SyncAwaitsWitness ==
    /\ Len(C) = DEFAULT_SIZE
    /\ running.op = "GC"
    /\ \E c, d \in 1..NumLockers :
          pc[c] = "wait" /\ pc[d] = "idle" /\ Head(C).caller = c

\* ------------------------------------------------- claims, the test clients
AllClientsDone == \A c \in Clients : client[c].step = Len(Calls)

\* No TTL of the record of client c has elapsed at the time the loop runs
\* the closure it has received from c
InTime(c) ==
    /\ client[c].tNew >= 0 => now - client[c].tNew <= AutoFreeInterval
    /\ (running.op = "Unlock" /\ client[c].tLock >= 0)
          => now - client[c].tLock <= AutoUnlockInterval

\* What a step in which the loop runs the closure of a client must satisfy
ClientRunStep ==
    (running.op \in {Calls[k] : k \in 1..Len(Calls)} /\ running' = NoFn) =>
        LET c == running.caller IN
        /\ \A x \in (DOMAIN Lockers \cup DOMAIN Lockers') \ {client'[c].id} :
              /\ x \in DOMAIN Lockers
              /\ x \in DOMAIN Lockers'
              /\ Lockers'[x] = Lockers[x]
        /\ \A d \in Clients \ {c} : client'[d] = client[d]
        /\ InTime(c) => client'[c].ok[Len(client'[c].ok)]

\* The clients' ids differ, and once every client is through the store is
\* empty
ClientsApart ==
    /\ \A c, d \in Clients :
          (c # d /\ client[c].id # EmptyStr) => client[c].id # client[d].id
    /\ AllClientsDone => DOMAIN Lockers = {}

\* C11: with NumClients clients each calling New, Lock, Unlock and Free for
\* its own id through the channel, beside the status goroutine and the GC
\* timer, in every interleaving a client's call changes no record and no
\* client but its own; a call run while no TTL of its record has elapsed
\* succeeds; under fair scheduling every client gets through its four
\* calls; and the store is empty once all have.
ClientsComplete ==
    /\ [][ClientRunStep]_vars
    /\ []ClientsApart
    /\ <>AllClientsDone

\* C11 witness: every client is through, every call of every client has
\* succeeded, the status goroutine has sent its closures, the loop has run
\* them all and the store is empty.
ClientsCompleteWitness ==
    /\ AllClientsDone
    /\ \A c \in Clients :
          Len(client[c].ok) = Len(Calls) /\ \A k \in 1..Len(Calls) : client[c].ok[k]
    /\ polls = MaxPolls
    /\ ran = sent
    /\ DOMAIN Lockers = {}
    /\ nextId = NumClients + 1

\* What a step must satisfy for the commands to be serialized
SerializedStep ==
    /\ (Lockers' # Lockers \/ nextId' # nextId \/ nextSecret' # nextSecret)
         => running # NoFn /\ running' = NoFn
    /\ (running # NoFn /\ running' # running)
         => /\ running' = NoFn
            /\ running.seq = ran + 1
            /\ ran' = ran + 1
            /\ C' = C
    /\ (running = NoFn /\ running' # NoFn)
         => /\ C # <<>>
            /\ running' = Head(C)
            /\ running'.seq = ran + 1
            /\ UNCHANGED <<Lockers, nextId, nextSecret, ran>>
    /\ gcWake' # gcWake
         => /\ UNCHANGED <<Lockers, nextId, nextSecret, running>>
            /\ C' = Append(C, [caller |-> -1, op |-> "GC", args |-> <<>>,
                               seq |-> sent + 1])
    /\ \A i \in 1..Len(C') :
          C'[i].seq = ran' + (IF running' = NoFn THEN 0 ELSE 1) + i

\* C12: the store changes only in a step in which the loop runs the one
\* closure it has received, and the loop receives the next closure only
\* when that one has returned; closures are run in the order in which they
\* were sent on the channel; and the GC timer only sends a closure: it
\* leaves the store as it is.
Serialized == [][SerializedStep]_vars

\* C12 witness: the loop has the closure of the GC timer in hand, the
\* closure of the status goroutine is next in the channel, and a client
\* that is between two calls cannot send.
SerializedWitness ==
    /\ running.op = "GC"
    /\ Len(C) = DEFAULT_SIZE
    /\ C[1].op = "Status"
    /\ \E c \in Clients : client[c].pc = "idle" /\ client[c].step \in 1..3
====
